---- MODULE Spec2Model ----
(***************************************************************************)
(* Model of the interactive-sculpture firmware                             *)
(* (firmware/interactive-sculpture-firmware/src/main.cpp, include/config.h)*)
(*                                                                         *)
(* Number representation.  The firmware computes with float; the model     *)
(* computes with exact integers in fixed units:                            *)
(*   phase, phaseOffset      1/4000 rad                                    *)
(*   speed                   1/2000 rad per loop                           *)
(*   speedFactor             halves  (so speed * speedFactor is 1/4000 rad)*)
(*   distance, thresholds    1/20000 cm (so duration[us] * 343 is exact)   *)
(*   millis, userDetectTime  milliseconds, unsigned 32 bit                 *)
(* Rounding of the float operations is not modelled.                       *)
(***************************************************************************)
EXTENDS Integers, Sequences, FiniteSets, TLC

\* ------------------------------------------------------------------ bounds
\* loop() iterations explored by Spec
MaxIter == 3
\* lines the serial receive buffer holds in Spec
MaxQueue == 1
\* animator ticks explored by SpecAnim while the movement state is held
MaxTicks == 12600

\* ------------------------------------------------------------- config.h
NUM_LEAVES == 2
Leaves == 0 .. (NUM_LEAVES - 1)

\* const float SPEED_OF_SOUND = 0.0343 cm/us; (duration * 0.0343) / 2 in
\* units of 1/20000 cm is duration * 343
SPEED_OF_SOUND == 343
SAMPLING_INTERVAL_MS == 100
\* 30.0 cm and 10.0 cm in units of 1/20000 cm
APPROACH_THRESHOLD_CM == 600000
INTERACTION_THRESHOLD_CM == 200000

PULSEWIDTH_MIN == 500
PULSEWIDTH_MAX == 2500
SERVO_MAX_ANGLE == 270

\* const AngleRange LEAF_RANGES[NUM_LEAVES] = {{45, 135}, {45, 135}}
LEAF_RANGES == [i \in Leaves |-> [minAngle |-> 45, maxAngle |-> 135]]

\* const Leaf LEAF_PINS[NUM_LEAVES] = {{0}, {1}}
LEAF_PINS == [i \in Leaves |-> [servoPin |-> i]]

\* {speed, phaseOffset}: {0.001, 0.0}, {0.0015, 0.3}
LEAF_BASELINES ==
    [i \in Leaves |->
        IF i = 0 THEN [speed |-> 2, phaseOffset |-> 0]
                 ELSE [speed |-> 3, phaseOffset |-> 1200]]

\* enum UserState
NO_USER == "NO_USER"
USER_APPROACHING == "USER_APPROACHING"
USER_INTERACTING == "USER_INTERACTING"
UserState == {NO_USER, USER_APPROACHING, USER_INTERACTING}

\* enum MovementState
IDLE == "IDLE"
LISTEN == "LISTEN"
REACTING_POSITIVE == "REACTING_POSITIVE"
REACTING_NEGATIVE == "REACTING_NEGATIVE"
REACTING_NEUTRAL == "REACTING_NEUTRAL"
MovementState ==
    {IDLE, LISTEN, REACTING_POSITIVE, REACTING_NEGATIVE, REACTING_NEUTRAL}

\* struct MovementSet {amplitude, centerAngle, speedFactor}; speedFactor in
\* halves: 1 -> 2, 0.5 -> 1, 2 -> 4, 3 -> 6, 1.5 -> 3
IDLE_MOVEMENT == [amplitude |-> 25, centerAngle |-> 90, speedFactor |-> 2]
LISTEN_MOVEMENT == [amplitude |-> 3, centerAngle |-> 20, speedFactor |-> 1]
POSITIVE_MOVEMENT == [amplitude |-> 25, centerAngle |-> 90, speedFactor |-> 4]
NEGATIVE_MOVEMENT == [amplitude |-> 5, centerAngle |-> 135, speedFactor |-> 6]
NEUTRAL_MOVEMENT == [amplitude |-> 20, centerAngle |-> 90, speedFactor |-> 3]

\* ------------------------------------------------------------- main.cpp
\* 2 * PI in units of 1/4000 rad (25132.74...): for an integer phase p,
\* p >= 2*PI holds exactly when p >= 25133
TWO_PI == 25133

\* unsigned long (32 bit) values are records [hi, lo] of two 16 bit halves
HALF_WORD == 65536

\* millis() when setup() returns: delay(1500) in initializeLeafPositions
SETUP_DELAY_MS == 1500

\* the lines sent by Serial.println
EV_APPROACH_START == "event:user_approach_start"
EV_APPROACH_END == "event:user_approach_end"
EV_INTERACTION_START == "event:user_interaction_start"
EV_INTERACTION_END == "event:user_interaction_end"

\* the lines compared in readSerialCommands
CMD_POSITIVE == "set_state:REACTING_POSITIVE"
CMD_NEGATIVE == "set_state:REACTING_NEGATIVE"
CMD_NEUTRAL == "set_state:REACTING_NEUTRAL"
CMD_IDLE == "set_state:IDLE"
RecognizedCommands == {CMD_POSITIVE, CMD_NEGATIVE, CMD_NEUTRAL, CMD_IDLE}

\* value of a local that was not set in this pass of loop()
None == "none"

VARIABLES
    pc,                  \* the call loop() makes next
    iter,                \* loop() iterations started
    currentPhases,       \* float currentPhases[NUM_LEAVES]
    movementState,       \* MovementState movementState
    userState,           \* UserState userState
    userDetectTime,      \* unsigned long userDetectTime
    millis,              \* the millisecond clock read by millis()
    serialIn,            \* complete lines waiting in the serial receive buffer
    emitted,             \* lines printed to Serial by the latest step
    sampled,             \* userDetection() sampled in this pass of loop()
    approachDistance,    \* local of userDetection(), "none" until it is set
    interactionDistance, \* local of userDetection(), "none" until it is set
    command,             \* local of readSerialCommands(), "none" until it is set
    lastApplied,         \* recognized command applied latest, "none" once a
                         \* sensor transition or another line came after it
    prior,               \* userState, movementState and lastApplied as they
                         \* were when the latest call made by loop() began
    ticks,               \* updateLeafMovement() calls since the movement state
                         \* was set (SpecAnim)
    held,                \* the movement state was never changed (SpecAnim)
    pwmWrites,           \* servo writes made by the latest call loop() made
    mapCall,             \* arguments and results of mapFloat calls (SpecMap)
    hostView,            \* the user state the host derives from the lines it
                         \* has read, "none" while it is not following
    currentState,        \* UserState currentState of the standalone sensor
                         \* module run side by side on the same samples
    moduleEmitted,       \* lines the sensor module printed during the latest
                         \* step
    burst                \* the lines the host queued before the first pass and
                         \* the movement state at that time (SpecDrain)

vars == <<pc, iter, currentPhases, movementState, userState, userDetectTime,
          millis, serialIn, emitted, sampled, approachDistance,
          interactionDistance, command, lastApplied, prior, ticks, held,
          pwmWrites, mapCall, hostView, currentState, moduleEmitted, burst>>

\* ---------------------------------------------------------- leaf animator
\* switch (movementState) in updateLeafMovement
ActiveMovement(state) ==
    CASE state = LISTEN -> LISTEN_MOVEMENT
      [] state = REACTING_POSITIVE -> POSITIVE_MOVEMENT
      [] state = REACTING_NEGATIVE -> NEGATIVE_MOVEMENT
      [] state = REACTING_NEUTRAL -> NEUTRAL_MOVEMENT
      [] OTHER -> IDLE_MOVEMENT

\* WrapPhase comparing with > where the code compares with >=
WrapPhase_Above(p) == IF p > TWO_PI THEN p - TWO_PI ELSE p

\* if (currentPhases[i] >= 2 * PI) currentPhases[i] -= 2 * PI;
WrapPhase(p) == IF p >= TWO_PI THEN p - TWO_PI ELSE p

\* StepPhase reading the speed of leaf 0 for every leaf
StepPhase_Leaf0Speed(p, i, state) ==
    IF p + LEAF_BASELINES[0].speed * ActiveMovement(state).speedFactor >= TWO_PI
    THEN p + LEAF_BASELINES[0].speed * ActiveMovement(state).speedFactor - TWO_PI
    ELSE p + LEAF_BASELINES[0].speed * ActiveMovement(state).speedFactor

\* the body of the for loop of updateLeafMovement, for leaf i
StepPhase(p, i, state) ==
    WrapPhase(p + LEAF_BASELINES[i].speed * ActiveMovement(state).speedFactor)

\* updateLeafMovement with a loop that stops one leaf early
updateLeafMovement_SkipsLastLeaf(phases, state) ==
    [i \in Leaves |->
        IF i < NUM_LEAVES - 1 THEN StepPhase(phases[i], i, state) ELSE phases[i]]

\* updateLeafMovement: the phases it leaves behind
updateLeafMovement(phases, state) ==
    [i \in Leaves |-> StepPhase(phases[i], i, state)]

\* float values of the conversion are exact fractions n / d with d > 0
Rat(k) == [n |-> k, d |-> 1]

\* mapFloat without the final + out_min
mapFloat_NoOffset(x, in_min, in_max, out_min, out_max) ==
    LET num == (x.n - in_min * x.d) * (out_max - out_min)
        den == x.d * (in_max - in_min)
    IN  IF den < 0 THEN [n |-> -num, d |-> -den] ELSE [n |-> num, d |-> den]

\* mapFloat measuring x from in_max
mapFloat_FromInMax(x, in_min, in_max, out_min, out_max) ==
    LET num == (x.n - in_max * x.d) * (out_max - out_min)
               + out_min * x.d * (in_max - in_min)
        den == x.d * (in_max - in_min)
    IN  IF den < 0 THEN [n |-> -num, d |-> -den] ELSE [n |-> num, d |-> den]

\* return (x - in_min) * (out_max - out_min) / (in_max - in_min) + out_min;
mapFloat(x, in_min, in_max, out_min, out_max) ==
    LET num == (x.n - in_min * x.d) * (out_max - out_min)
               + out_min * x.d * (in_max - in_min)
        den == x.d * (in_max - in_min)
    IN  IF den < 0 THEN [n |-> -num, d |-> -den] ELSE [n |-> num, d |-> den]

\* PI in units of 1/4000 rad (12566.37...)
PI == 12566

\* sin(phase) in thousandths. The library function is replaced by Bhaskara's
\* rational approximation 16 x (PI - x) / (5 PI^2 - 4 x (PI - x)) on
\* [0, PI], mirrored on the second half of the cycle; products are divided
\* by 1024 to stay inside 32 bits and the result is rounded to the nearest
\* thousandth. It is 0 at 0 and PI, 1000 at PI / 2,
\* -1000 at 3 PI / 2, and within 0.003 of the sine in between.
sin(phase) ==
    LET q == phase % TWO_PI
        x == IF q <= PI THEN q ELSE (IF q - PI > PI THEN PI ELSE q - PI)
        u == (x * (PI - x)) \div 1024
        w == 5 * ((PI * PI) \div 1024) - 4 * u
        v == (16000 * u + w \div 2) \div w
    IN  IF q <= PI THEN v ELSE -v

\* conversion of a float to int: the fraction is cut off towards zero
ToInt(r) == IF r.n >= 0 THEN r.n \div r.d ELSE -((-r.n) \div r.d)

\* moveLeaf with the sine value mapped from the range 0 .. 1
moveLeaf_HalfRange(phase, leafIndex) ==
    LET sinValue == [n |-> sin(phase), d |-> 1000]
        angle == mapFloat(sinValue, 0, 1, LEAF_RANGES[leafIndex].minAngle,
                          LEAF_RANGES[leafIndex].maxAngle)
        pulseWidth == ToInt(mapFloat(angle, 0, SERVO_MAX_ANGLE,
                                     PULSEWIDTH_MIN, PULSEWIDTH_MAX))
    IN  [channel |-> LEAF_PINS[leafIndex].servoPin,
         angle |-> angle,
         pulseWidth |-> pulseWidth]

\* moveLeaf(phase, leafIndex): the call pwm.writeMicroseconds(channel,
\* pulseWidth) it makes, with the angle it computed on the way
moveLeaf(phase, leafIndex) ==
    LET sinValue == [n |-> sin(phase), d |-> 1000]
        angle == mapFloat(sinValue, -1, 1, LEAF_RANGES[leafIndex].minAngle,
                          LEAF_RANGES[leafIndex].maxAngle)
        pulseWidth == ToInt(mapFloat(angle, 0, SERVO_MAX_ANGLE,
                                     PULSEWIDTH_MIN, PULSEWIDTH_MAX))
    IN  [channel |-> LEAF_PINS[leafIndex].servoPin,
         angle |-> angle,
         pulseWidth |-> pulseWidth]

\* LeafWrites with the angle taken from the movement set of the state:
\* centerAngle + amplitude * sin(phase)
LeafWrites_UsesMovementSet(phases, state) ==
    [k \in 1 .. NUM_LEAVES |->
        LET angle == [n |-> ActiveMovement(state).centerAngle * 1000
                            + ActiveMovement(state).amplitude * sin(phases[k - 1]),
                      d |-> 1000]
        IN  [channel |-> LEAF_PINS[k - 1].servoPin,
             angle |-> angle,
             pulseWidth |-> ToInt(mapFloat(angle, 0, SERVO_MAX_ANGLE,
                                           PULSEWIDTH_MIN, PULSEWIDTH_MAX))]]

\* the writes made by the for loops of updateLeafMovement (with
\* movementState = state) and of initializeLeafPositions: one moveLeaf call
\* per leaf, on the phase the leaf has before it is incremented
LeafWrites(phases, state) ==
    [k \in 1 .. NUM_LEAVES |-> moveLeaf(phases[k - 1], k - 1)]

\* setMovementState(state): the new value of movementState
setMovementState(state) == state

\* --------------------------------------------------- unsigned long clock
ULong(n) == [hi |-> (n \div HALF_WORD) % HALF_WORD, lo |-> n % HALF_WORD]

\* a + d modulo 2^32, for 0 <= d < 2^16
ULongAdd(a, d) ==
    [hi |-> (a.hi + ((a.lo + d) \div HALF_WORD)) % HALF_WORD,
     lo |-> (a.lo + d) % HALF_WORD]

\* a - b modulo 2^32
ULongSub(a, b) ==
    [hi |-> (a.hi - b.hi - (IF a.lo < b.lo THEN 1 ELSE 0)) % HALF_WORD,
     lo |-> (a.lo - b.lo) % HALF_WORD]

\* NotTimeToSample subtracting millis() from userDetectTime
NotTimeToSample_Reversed(now, last) ==
    LET d == ULongSub(last, now)
    IN  d.hi = 0 /\ d.lo < SAMPLING_INTERVAL_MS

\* NotTimeToSample comparing millis() with userDetectTime +
\* SAMPLING_INTERVAL_MS in arithmetic that does not wrap
NotTimeToSample_NoWrap(now, last) ==
    LET sum == last.lo + SAMPLING_INTERVAL_MS
        limHi == last.hi + sum \div HALF_WORD
        limLo == sum % HALF_WORD
    IN  now.hi < limHi \/ (now.hi = limHi /\ now.lo < limLo)

\* millis() - userDetectTime < SAMPLING_INTERVAL_MS
NotTimeToSample(now, last) ==
    LET d == ULongSub(now, last)
    IN  d.hi = 0 /\ d.lo < SAMPLING_INTERVAL_MS

\* ------------------------------------------------------- distance sampler
\* pulseIn() results in microseconds; 0 is its result when the echo times out
ApproachDurations == {0, 1749, 1750}
InteractionDurations == {0, 583, 584}

\* float distance = (duration * SPEED_OF_SOUND) / 2, in 1/20000 cm
readUltrasonicDistance(duration) == duration * SPEED_OF_SOUND

\* ------------------------------------------------ interaction state machine
\* approachDistance <= APPROACH_THRESHOLD_CM
ApproachWithin(approach) == approach <= APPROACH_THRESHOLD_CM

\* interactionDistance <= INTERACTION_THRESHOLD_CM
InteractionWithin(interaction) == interaction <= INTERACTION_THRESHOLD_CM

\* ApproachBeyond comparing with the interaction threshold
ApproachBeyond_WrongThreshold(approach) == approach > INTERACTION_THRESHOLD_CM

\* ApproachBeyond comparing with >= where the code compares with >
ApproachBeyond_OrEqual(approach) == approach >= APPROACH_THRESHOLD_CM

\* approachDistance > APPROACH_THRESHOLD_CM
ApproachBeyond(approach) == approach > APPROACH_THRESHOLD_CM

\* InteractionBeyond comparing with the approach threshold
InteractionBeyond_WrongThreshold(interaction) ==
    interaction > APPROACH_THRESHOLD_CM

\* interactionDistance > INTERACTION_THRESHOLD_CM
InteractionBeyond(interaction) == interaction > INTERACTION_THRESHOLD_CM

\* CaseNoUser without the call setMovementState(LISTEN)
CaseNoUser_NoListen(ms, approach) ==
    IF ApproachWithin(approach)
    THEN [userState |-> USER_APPROACHING,
          movementState |-> ms,
          emitted |-> <<EV_APPROACH_START>>]
    ELSE [userState |-> NO_USER, movementState |-> ms, emitted |-> <<>>]

\* case NO_USER of the switch of userDetection: the user state, the
\* movement state and the lines printed
CaseNoUser(ms, approach) ==
    IF ApproachWithin(approach)
    THEN [userState |-> USER_APPROACHING,
          movementState |-> setMovementState(LISTEN),
          emitted |-> <<EV_APPROACH_START>>]
    ELSE [userState |-> NO_USER, movementState |-> ms, emitted |-> <<>>]

\* CaseUserApproaching calling setMovementState(LISTEN) when the interaction
\* starts
CaseUserApproaching_SetsListen(ms, approach, interaction) ==
    IF interaction <= INTERACTION_THRESHOLD_CM
    THEN [userState |-> USER_INTERACTING,
          movementState |-> LISTEN,
          emitted |-> <<EV_INTERACTION_START>>]
    ELSE IF approach > APPROACH_THRESHOLD_CM
    THEN [userState |-> NO_USER,
          movementState |-> IDLE,
          emitted |-> <<EV_APPROACH_END>>]
    ELSE [userState |-> USER_APPROACHING, movementState |-> ms,
          emitted |-> <<>>]

\* CaseUserApproaching testing the approach distance before the interaction
\* distance
CaseUserApproaching_ApproachFirst(ms, approach, interaction) ==
    IF approach > APPROACH_THRESHOLD_CM
    THEN [userState |-> NO_USER,
          movementState |-> IDLE,
          emitted |-> <<EV_APPROACH_END>>]
    ELSE IF interaction <= INTERACTION_THRESHOLD_CM
    THEN [userState |-> USER_INTERACTING,
          movementState |-> ms,
          emitted |-> <<EV_INTERACTION_START>>]
    ELSE [userState |-> USER_APPROACHING, movementState |-> ms,
          emitted |-> <<>>]

\* CaseUserApproaching without the call setMovementState(IDLE)
CaseUserApproaching_NoIdle(ms, approach, interaction) ==
    IF interaction <= INTERACTION_THRESHOLD_CM
    THEN [userState |-> USER_INTERACTING,
          movementState |-> ms,
          emitted |-> <<EV_INTERACTION_START>>]
    ELSE IF approach > APPROACH_THRESHOLD_CM
    THEN [userState |-> NO_USER,
          movementState |-> ms,
          emitted |-> <<EV_APPROACH_END>>]
    ELSE [userState |-> USER_APPROACHING, movementState |-> ms,
          emitted |-> <<>>]

\* CaseUserApproaching calling setMovementState(LISTEN) on every tick on which
\* the visitor stays in the approach zone
CaseUserApproaching_HoldsListen(ms, approach, interaction) ==
    IF interaction <= INTERACTION_THRESHOLD_CM
    THEN [userState |-> USER_INTERACTING,
          movementState |-> ms,
          emitted |-> <<EV_INTERACTION_START>>]
    ELSE IF approach > APPROACH_THRESHOLD_CM
    THEN [userState |-> NO_USER,
          movementState |-> IDLE,
          emitted |-> <<EV_APPROACH_END>>]
    ELSE [userState |-> USER_APPROACHING, movementState |-> LISTEN,
          emitted |-> <<>>]

\* case USER_APPROACHING
CaseUserApproaching(ms, approach, interaction) ==
    IF InteractionWithin(interaction)
    THEN [userState |-> USER_INTERACTING,
          movementState |-> ms,
          emitted |-> <<EV_INTERACTION_START>>]
    ELSE IF ApproachBeyond(approach)
    THEN [userState |-> NO_USER,
          movementState |-> setMovementState(IDLE),
          emitted |-> <<EV_APPROACH_END>>]
    ELSE [userState |-> USER_APPROACHING, movementState |-> ms,
          emitted |-> <<>>]

\* CaseUserInteracting calling setMovementState(IDLE) when the interaction
\* ends
CaseUserInteracting_SetsIdle(ms, interaction) ==
    IF interaction > INTERACTION_THRESHOLD_CM
    THEN [userState |-> USER_APPROACHING,
          movementState |-> IDLE,
          emitted |-> <<EV_INTERACTION_END>>]
    ELSE [userState |-> USER_INTERACTING, movementState |-> ms,
          emitted |-> <<>>]

\* CaseUserInteracting without the Serial.println of the interaction end
CaseUserInteracting_SilentEnd(ms, interaction) ==
    IF interaction > INTERACTION_THRESHOLD_CM
    THEN [userState |-> USER_APPROACHING,
          movementState |-> ms,
          emitted |-> <<>>]
    ELSE [userState |-> USER_INTERACTING, movementState |-> ms,
          emitted |-> <<>>]

\* CaseUserInteracting printing the line of the approach end
CaseUserInteracting_WrongEndLine(ms, interaction) ==
    IF interaction > INTERACTION_THRESHOLD_CM
    THEN [userState |-> USER_APPROACHING,
          movementState |-> ms,
          emitted |-> <<EV_APPROACH_END>>]
    ELSE [userState |-> USER_INTERACTING, movementState |-> ms,
          emitted |-> <<>>]

\* CaseUserInteracting falling back to NO_USER at once
CaseUserInteracting_ToNoUser(ms, interaction) ==
    IF interaction > INTERACTION_THRESHOLD_CM
    THEN [userState |-> NO_USER,
          movementState |-> ms,
          emitted |-> <<EV_INTERACTION_END>>]
    ELSE [userState |-> USER_INTERACTING, movementState |-> ms,
          emitted |-> <<>>]

\* case USER_INTERACTING
CaseUserInteracting(ms, interaction) ==
    IF InteractionBeyond(interaction)
    THEN [userState |-> USER_APPROACHING,
          movementState |-> ms,
          emitted |-> <<EV_INTERACTION_END>>]
    ELSE [userState |-> USER_INTERACTING, movementState |-> ms,
          emitted |-> <<>>]

\* switch (userState) of userDetection
UserDetectionSwitch(us, ms, approach, interaction) ==
    CASE us = NO_USER -> CaseNoUser(ms, approach)
      [] us = USER_APPROACHING -> CaseUserApproaching(ms, approach, interaction)
      [] us = USER_INTERACTING -> CaseUserInteracting(ms, interaction)
      [] OTHER -> [userState |-> us, movementState |-> ms, emitted |-> <<>>]

\* ------------------------------------------ the standalone sensor module
\* firmware-sensor-module: #define APPROACH_THRESHOLD_CM 30.0 and
\* #define INTERACTION_THRESHOLD_CM 10.0, in 1/20000 cm
SensorModule_APPROACH_THRESHOLD_CM == 600000
SensorModule_INTERACTION_THRESHOLD_CM == 200000

\* SensorModule_userDetection leaving USER_INTERACTING for NO_USER at once
\* when both readings are beyond their thresholds
SensorModule_userDetection_LeavesAtOnce(cs, approach, interaction) ==
    CASE cs = NO_USER ->
            IF approach <= SensorModule_APPROACH_THRESHOLD_CM
            THEN [currentState |-> USER_APPROACHING,
                  emitted |-> <<"event:user_approach_start">>]
            ELSE [currentState |-> NO_USER, emitted |-> <<>>]
      [] cs = USER_APPROACHING ->
            IF interaction <= SensorModule_INTERACTION_THRESHOLD_CM
            THEN [currentState |-> USER_INTERACTING,
                  emitted |-> <<"event:user_interaction_start">>]
            ELSE IF approach > SensorModule_APPROACH_THRESHOLD_CM
            THEN [currentState |-> NO_USER,
                  emitted |-> <<"event:user_approach_end">>]
            ELSE [currentState |-> USER_APPROACHING, emitted |-> <<>>]
      [] cs = USER_INTERACTING ->
            IF interaction > SensorModule_INTERACTION_THRESHOLD_CM
            THEN IF approach > SensorModule_APPROACH_THRESHOLD_CM
                 THEN [currentState |-> NO_USER,
                       emitted |-> <<"event:user_interaction_end",
                                     "event:user_approach_end">>]
                 ELSE [currentState |-> USER_APPROACHING,
                       emitted |-> <<"event:user_interaction_end">>]
            ELSE [currentState |-> USER_INTERACTING, emitted |-> <<>>]
      [] OTHER -> [currentState |-> cs, emitted |-> <<>>]

\* switch (currentState) of the sensor module's userDetection(): the state it
\* leaves in currentState and the lines it prints
SensorModule_userDetection(cs, approach, interaction) ==
    CASE cs = NO_USER ->
            IF approach <= SensorModule_APPROACH_THRESHOLD_CM
            THEN [currentState |-> USER_APPROACHING,
                  emitted |-> <<"event:user_approach_start">>]
            ELSE [currentState |-> NO_USER, emitted |-> <<>>]
      [] cs = USER_APPROACHING ->
            IF interaction <= SensorModule_INTERACTION_THRESHOLD_CM
            THEN [currentState |-> USER_INTERACTING,
                  emitted |-> <<"event:user_interaction_start">>]
            ELSE IF approach > SensorModule_APPROACH_THRESHOLD_CM
            THEN [currentState |-> NO_USER,
                  emitted |-> <<"event:user_approach_end">>]
            ELSE [currentState |-> USER_APPROACHING, emitted |-> <<>>]
      [] cs = USER_INTERACTING ->
            IF interaction > SensorModule_INTERACTION_THRESHOLD_CM
            THEN [currentState |-> USER_APPROACHING,
                  emitted |-> <<"event:user_interaction_end">>]
            ELSE [currentState |-> USER_INTERACTING, emitted |-> <<>>]
      [] OTHER -> [currentState |-> cs, emitted |-> <<>>]

\* ---------------------------------------------------------------- host link
\* CommandState with set_state:REACTING_NEUTRAL setting REACTING_NEGATIVE
CommandState_NeutralAsNegative(cmd, ms) ==
    IF cmd = CMD_POSITIVE THEN REACTING_POSITIVE
    ELSE IF cmd = CMD_NEGATIVE THEN REACTING_NEGATIVE
    ELSE IF cmd = CMD_NEUTRAL THEN REACTING_NEGATIVE
    ELSE IF cmd = CMD_IDLE THEN IDLE
    ELSE ms

\* CommandState with a final else that falls back to IDLE
CommandState_DefaultIdle(cmd, ms) ==
    IF cmd = CMD_POSITIVE THEN REACTING_POSITIVE
    ELSE IF cmd = CMD_NEGATIVE THEN REACTING_NEGATIVE
    ELSE IF cmd = CMD_NEUTRAL THEN REACTING_NEUTRAL
    ELSE IDLE

\* CommandState where a reaction command that names the active state
\* switches it off again
CommandState_Toggle(cmd, ms) ==
    IF cmd = CMD_POSITIVE
    THEN (IF ms = REACTING_POSITIVE THEN IDLE ELSE REACTING_POSITIVE)
    ELSE IF cmd = CMD_NEGATIVE
    THEN (IF ms = REACTING_NEGATIVE THEN IDLE ELSE REACTING_NEGATIVE)
    ELSE IF cmd = CMD_NEUTRAL
    THEN (IF ms = REACTING_NEUTRAL THEN IDLE ELSE REACTING_NEUTRAL)
    ELSE IF cmd = CMD_IDLE THEN IDLE
    ELSE ms

\* CommandState with a branch that accepts set_state:LISTEN
CommandState_AcceptsListen(cmd, ms) ==
    IF cmd = CMD_POSITIVE THEN REACTING_POSITIVE
    ELSE IF cmd = CMD_NEGATIVE THEN REACTING_NEGATIVE
    ELSE IF cmd = CMD_NEUTRAL THEN REACTING_NEUTRAL
    ELSE IF cmd = CMD_IDLE THEN IDLE
    ELSE IF cmd = "set_state:LISTEN" THEN LISTEN
    ELSE ms

\* CommandState that leaves LISTEN alone
CommandState_KeepsListen(cmd, ms) ==
    IF ms = LISTEN THEN ms
    ELSE IF cmd = CMD_POSITIVE THEN REACTING_POSITIVE
    ELSE IF cmd = CMD_NEGATIVE THEN REACTING_NEGATIVE
    ELSE IF cmd = CMD_NEUTRAL THEN REACTING_NEUTRAL
    ELSE IF cmd = CMD_IDLE THEN IDLE
    ELSE ms

\* CommandState that also accepts set_state:idle in lower case
CommandState_CaseInsensitive(cmd, ms) ==
    IF cmd = CMD_POSITIVE THEN REACTING_POSITIVE
    ELSE IF cmd = CMD_NEGATIVE THEN REACTING_NEGATIVE
    ELSE IF cmd = CMD_NEUTRAL THEN REACTING_NEUTRAL
    ELSE IF cmd = CMD_IDLE \/ cmd = "set_state:idle" THEN IDLE
    ELSE ms

\* the if / else if chain of readSerialCommands: the movement state after
\* the line cmd was read
CommandState(cmd, ms) ==
    IF cmd = CMD_POSITIVE THEN setMovementState(REACTING_POSITIVE)
    ELSE IF cmd = CMD_NEGATIVE THEN setMovementState(REACTING_NEGATIVE)
    ELSE IF cmd = CMD_NEUTRAL THEN setMovementState(REACTING_NEUTRAL)
    ELSE IF cmd = CMD_IDLE THEN setMovementState(IDLE)
    ELSE ms

\* the user state the host holds after reading the line, when it held view
\* before: each line moves it along the one edge the line stands for, and a
\* line that does not fit the state it holds puts it out of step
HostStep(view, line) ==
    IF view = None THEN None
    ELSE IF view = NO_USER /\ line = EV_APPROACH_START THEN USER_APPROACHING
    ELSE IF view = USER_APPROACHING /\ line = EV_APPROACH_END THEN NO_USER
    ELSE IF view = USER_APPROACHING /\ line = EV_INTERACTION_START
    THEN USER_INTERACTING
    ELSE IF view = USER_INTERACTING /\ line = EV_INTERACTION_END
    THEN USER_APPROACHING
    ELSE "out of step"

\* the host reading the lines printed by one step, in order
RECURSIVE HostReplay(_, _)
HostReplay(view, lines) ==
    IF lines = <<>> THEN view
    ELSE HostReplay(HostStep(view, Head(lines)), Tail(lines))

\* lines the host sends
HostLines ==
    RecognizedCommands \cup
        {"set_state:BOGUS", "set_state:LISTEN", "set_state:idle", ""}

\* milliseconds one pass of loop() can take; the clock is advanced once per
\* pass, so both millis() calls of userDetection read the same value
LoopMillis == {1, 99, 100}

\* the globals as a call made by loop() finds them
Snapshot ==
    [userState |-> userState, movementState |-> movementState,
     lastApplied |-> lastApplied]

\* ------------------------------------------------------------------- setup
\* the globals and locals between two passes of loop(), with nothing unread
\* on the serial link
StateWith(us, ms, phases, last, now, writes) ==
    /\ currentPhases = phases
    /\ movementState = ms
    /\ userState = us
    /\ userDetectTime = last
    /\ millis = now
    /\ serialIn = <<>>
    /\ emitted = <<>>
    /\ sampled = FALSE
    /\ approachDistance = None
    /\ interactionDistance = None
    /\ command = None
    /\ lastApplied = None
    /\ prior = Snapshot
    /\ pwmWrites = writes
    /\ hostView = IF us = NO_USER THEN NO_USER ELSE None
    /\ currentState = us
    /\ moduleEmitted = <<>>

\* the globals' initializers and setup(), with userState = us and
\* movementState = ms
SetupWith(us, ms) ==
    StateWith(us, ms, [i \in Leaves |-> LEAF_BASELINES[i].phaseOffset],
              ULong(0), ULong(SETUP_DELAY_MS),
              LeafWrites([i \in Leaves |-> LEAF_BASELINES[i].phaseOffset], ms))

\* MovementState movementState = IDLE; UserState userState = NO_USER;
Setup == SetupWith(NO_USER, IDLE)

Init ==
    /\ Setup
    /\ pc = "updateLeafMovement"
    /\ iter = 0
    /\ ticks = 0
    /\ held = TRUE
    /\ burst = None
    /\ mapCall = None

\* ------------------------------------------------------------------ loop()
\* updateLeafMovement(); one pass of loop() takes dt milliseconds
UpdateLeafMovement ==
    /\ prior' = Snapshot
    /\ pc = "updateLeafMovement"
    /\ iter < MaxIter
    /\ \E dt \in LoopMillis : millis' = ULongAdd(millis, dt)
    /\ currentPhases' = updateLeafMovement(currentPhases, movementState)
    /\ pwmWrites' = LeafWrites(currentPhases, movementState)
    /\ emitted' = <<>>
    /\ moduleEmitted' = <<>>
    /\ sampled' = FALSE
    /\ approachDistance' = None
    /\ interactionDistance' = None
    /\ command' = None
    /\ iter' = iter + 1
    /\ pc' = "userDetection"
    /\ UNCHANGED <<movementState, userState, userDetectTime, serialIn,
                   lastApplied, ticks, held,
                   mapCall,
                   hostView,
                   currentState, burst>>

\* userDetection() returning at its interval check
UserDetectionSkip ==
    /\ prior' = Snapshot
    /\ pwmWrites' = <<>>
    /\ pc = "userDetection"
    /\ NotTimeToSample(millis, userDetectTime)
    /\ emitted' = <<>>
    /\ moduleEmitted' = <<>>
    /\ pc' = "readSerialCommands"
    /\ UNCHANGED <<iter, currentPhases, movementState, userState,
                   userDetectTime, millis, serialIn, sampled, approachDistance,
                   interactionDistance, command, lastApplied, ticks, held,
                   mapCall,
                   hostView,
                   currentState, burst>>

\* the state machine of userDetection() on the readings approach, interaction
UserDetectionOn(approach, interaction) ==
    LET r == UserDetectionSwitch(userState, movementState, approach, interaction)
        m == SensorModule_userDetection(currentState, approach, interaction)
    IN  /\ sampled' = TRUE
        /\ currentState' = m.currentState
        /\ moduleEmitted' = m.emitted
        /\ approachDistance' = approach
        /\ interactionDistance' = interaction
        /\ userState' = r.userState
        /\ movementState' = r.movementState
        /\ emitted' = r.emitted
        /\ hostView' = HostReplay(hostView, r.emitted)
        /\ lastApplied' = IF r.userState = userState THEN lastApplied ELSE None

\* userDetection() sampling both sensors
UserDetectionSample ==
    /\ prior' = Snapshot
    /\ pwmWrites' = <<>>
    /\ pc = "userDetection"
    /\ ~NotTimeToSample(millis, userDetectTime)
    /\ userDetectTime' = millis
    /\ \E da \in ApproachDurations, di \in InteractionDurations :
           UserDetectionOn(readUltrasonicDistance(da),
                           readUltrasonicDistance(di))
    /\ pc' = "readSerialCommands"
    /\ UNCHANGED <<iter, currentPhases, millis, serialIn, command, ticks, held,
                   mapCall,
                   burst>>

\* readSerialCommands() when Serial.available() is 0
ReadSerialNothing ==
    /\ prior' = Snapshot
    /\ pwmWrites' = <<>>
    /\ pc = "readSerialCommands"
    /\ serialIn = <<>>
    /\ emitted' = <<>>
    /\ moduleEmitted' = <<>>
    /\ pc' = "updateLeafMovement"
    /\ UNCHANGED <<iter, currentPhases, movementState, userState,
                   userDetectTime, millis, serialIn, sampled, approachDistance,
                   interactionDistance, command, lastApplied, ticks, held,
                   mapCall,
                   hostView,
                   currentState, burst>>

\* ReadSerialLine restarting every leaf at its phase offset when the line
\* changes the movement state
ReadSerialLine_ResetsPhases ==
    /\ prior' = Snapshot
    /\ pwmWrites' = <<>>
    /\ pc = "readSerialCommands"
    /\ serialIn # <<>>
    /\ command' = Head(serialIn)
    /\ serialIn' = Tail(serialIn)
    /\ movementState' = CommandState(Head(serialIn), movementState)
    /\ currentPhases' =
           IF CommandState(Head(serialIn), movementState) # movementState
           THEN [i \in Leaves |-> LEAF_BASELINES[i].phaseOffset]
           ELSE currentPhases
    /\ lastApplied' =
           IF Head(serialIn) \in RecognizedCommands THEN Head(serialIn) ELSE None
    /\ emitted' = <<>>
    /\ moduleEmitted' = <<>>
    /\ pc' = "updateLeafMovement"
    /\ UNCHANGED <<iter, userState, userDetectTime, millis,
                   sampled, approachDistance, interactionDistance, ticks, held,
                   mapCall,
                   hostView,
                   currentState, burst>>

\* ReadSerialLine calling updateLeafMovement() again when the line changes
\* the movement state, so that the new speed factor acts in the same pass
ReadSerialLine_StepsAtOnce ==
    /\ prior' = Snapshot
    /\ pwmWrites' = <<>>
    /\ pc = "readSerialCommands"
    /\ serialIn # <<>>
    /\ command' = Head(serialIn)
    /\ serialIn' = Tail(serialIn)
    /\ movementState' = CommandState(Head(serialIn), movementState)
    /\ currentPhases' =
           IF CommandState(Head(serialIn), movementState) # movementState
           THEN updateLeafMovement(currentPhases,
                                   CommandState(Head(serialIn), movementState))
           ELSE currentPhases
    /\ lastApplied' =
           IF Head(serialIn) \in RecognizedCommands THEN Head(serialIn) ELSE None
    /\ emitted' = <<>>
    /\ moduleEmitted' = <<>>
    /\ pc' = "updateLeafMovement"
    /\ UNCHANGED <<iter, userState, userDetectTime, millis,
                   sampled, approachDistance, interactionDistance, ticks, held,
                   mapCall,
                   hostView,
                   currentState, burst>>

\* ReadSerialLine reading the line that arrived last
ReadSerialLine_NewestFirst ==
    /\ prior' = Snapshot
    /\ pwmWrites' = <<>>
    /\ pc = "readSerialCommands"
    /\ serialIn # <<>>
    /\ command' = serialIn[Len(serialIn)]
    /\ serialIn' = SubSeq(serialIn, 1, Len(serialIn) - 1)
    /\ movementState' = CommandState(serialIn[Len(serialIn)], movementState)
    /\ lastApplied' =
           IF serialIn[Len(serialIn)] \in RecognizedCommands
           THEN serialIn[Len(serialIn)] ELSE None
    /\ emitted' = <<>>
    /\ moduleEmitted' = <<>>
    /\ pc' = "updateLeafMovement"
    /\ UNCHANGED <<iter, currentPhases, userState, userDetectTime, millis,
                   sampled, approachDistance, interactionDistance, ticks, held,
                   mapCall,
                   hostView,
                   currentState, burst>>

\* readSerialCommands() reading one line
ReadSerialLine ==
    /\ prior' = Snapshot
    /\ pwmWrites' = <<>>
    /\ pc = "readSerialCommands"
    /\ serialIn # <<>>
    /\ command' = Head(serialIn)
    /\ serialIn' = Tail(serialIn)
    /\ movementState' = CommandState(Head(serialIn), movementState)
    /\ lastApplied' =
           IF Head(serialIn) \in RecognizedCommands THEN Head(serialIn) ELSE None
    /\ emitted' = <<>>
    /\ moduleEmitted' = <<>>
    /\ pc' = "updateLeafMovement"
    /\ UNCHANGED <<iter, currentPhases, userState, userDetectTime, millis,
                   sampled, approachDistance, interactionDistance, ticks, held,
                   mapCall,
                   hostView,
                   currentState, burst>>

\* the host writes one line to the serial link: before the firmware polls it,
\* or, with nothing unread, before a pass of loop() starts, so that the line
\* is pending while updateLeafMovement and userDetection run
HostSend ==
    /\ \/ pc = "readSerialCommands"
       \/ pc = "updateLeafMovement" /\ iter < MaxIter /\ serialIn = <<>>
    /\ Len(serialIn) < MaxQueue
    /\ \E line \in HostLines : serialIn' = Append(serialIn, line)
    /\ UNCHANGED <<pc, iter, currentPhases, movementState, userState,
                   userDetectTime, millis, emitted, sampled, approachDistance,
                   interactionDistance, command, lastApplied, prior, ticks,
                   held,
                   pwmWrites, mapCall,
                   hostView,
                   currentState, moduleEmitted, burst>>

Next ==
    \/ UpdateLeafMovement
    \/ UserDetectionSkip
    \/ UserDetectionSample
    \/ ReadSerialNothing
    \/ ReadSerialLine
    \/ HostSend

Spec == Init /\ [][Next]_vars

\* ------------------------------------------------- the animator on its own
\* updateLeafMovement() called over and over from the phases setup() leaves,
\* in each movement state; AnimSetState is setMovementState() called between
\* two calls
InitAnim ==
    /\ \E ms \in MovementState : SetupWith(NO_USER, ms)
    /\ pc = "updateLeafMovement"
    /\ iter = 0
    /\ ticks = 0
    /\ held = TRUE
    /\ burst = None
    /\ mapCall = None

AnimTick ==
    /\ held => ticks < MaxTicks
    /\ currentPhases' = updateLeafMovement(currentPhases, movementState)
    /\ pwmWrites' = LeafWrites(currentPhases, movementState)
    /\ ticks' = IF held THEN ticks + 1 ELSE 0
    /\ UNCHANGED <<pc, iter, movementState, userState, userDetectTime, millis,
                   serialIn, emitted, sampled, approachDistance,
                   interactionDistance, command, lastApplied, prior, held,
                   mapCall,
                   hostView,
                   currentState, moduleEmitted, burst>>

AnimSetState ==
    /\ held => ticks >= 1
    /\ \E s \in MovementState \ {movementState} :
           movementState' = setMovementState(s)
    /\ held' = FALSE
    /\ ticks' = 0
    /\ pwmWrites' = <<>>
    /\ UNCHANGED <<pc, iter, currentPhases, userState, userDetectTime, millis,
                   serialIn, emitted, sampled, approachDistance,
                   interactionDistance, command, lastApplied, prior,
                   mapCall,
                   hostView,
                   currentState, moduleEmitted, burst>>

NextAnim == AnimTick \/ AnimSetState

SpecAnim == InitAnim /\ [][NextAnim]_vars

\* --------------------------------- the interaction state machine on its own
\* float readings around the two thresholds, in 1/20000 cm: 25 cm, the
\* reading of 1749 us, 30 cm, the reading of 1750 us, 35 cm; 8 cm, the
\* reading of 583 us, 10 cm, the reading of 584 us, 15 cm
ApproachReadings == {0, 500000, 599907, 600000, 600250, 700000}
InteractionReadings == {0, 160000, 199969, 200000, 200312, 343000}

\* the switch of userDetection() applied to any user state, movement state
\* and pair of readings
InitDetect ==
    /\ \E us \in UserState, ms \in MovementState : SetupWith(us, ms)
    /\ pc = "userDetection"
    /\ iter = 0
    /\ ticks = 0
    /\ held = TRUE
    /\ burst = None
    /\ mapCall = None

DetectReadings ==
    /\ prior' = Snapshot
    /\ \E approach \in ApproachReadings, interaction \in InteractionReadings :
           UserDetectionOn(approach, interaction)
    /\ UNCHANGED <<pc, iter, currentPhases, userDetectTime, millis, serialIn,
                   command, ticks, held,
                   pwmWrites, mapCall,
                   burst>>

NextDetect == DetectReadings

SpecDetect == InitDetect /\ [][NextDetect]_vars

\* ------------------------------------------------ mapFloat on its own
\* range ends are the integers of -MapBound .. MapBound, values are
\* fractions with the denominator MapDen
MapBound == 2
MapDen == 2

\* the ranges mapFloat is called with: every pair of different small range
\* ends, and the two calls of moveLeaf
MapRanges ==
    {[in_min |-> a, in_max |-> b, out_min |-> c, out_max |-> e] :
        a \in -MapBound .. MapBound, b \in -MapBound .. MapBound,
        c \in -MapBound .. MapBound, e \in -MapBound .. MapBound}
    \cup {[in_min |-> -1, in_max |-> 1,
           out_min |-> LEAF_RANGES[i].minAngle,
           out_max |-> LEAF_RANGES[i].maxAngle] : i \in Leaves}
    \cup {[in_min |-> 0, in_max |-> SERVO_MAX_ANGLE,
           out_min |-> PULSEWIDTH_MIN, out_max |-> PULSEWIDTH_MAX]}

\* the numerators k of the values k / MapDen between the two range ends; the
\* wide range of the pulse width conversion is entered at the angles
\* LEAF_RANGES allows and at its two ends
MapNumerators(in_min, in_max) ==
    LET lo == IF in_min < in_max THEN in_min ELSE in_max
        hi == IF in_min < in_max THEN in_max ELSE in_min
    IN  IF hi - lo <= 2 * MapBound
        THEN lo * MapDen .. hi * MapDen
        ELSE {lo * MapDen, hi * MapDen}
             \cup {LEAF_RANGES[i].minAngle * MapDen : i \in Leaves}
             \cup {LEAF_RANGES[i].maxAngle * MapDen : i \in Leaves}
             \cup {LEAF_RANGES[i].minAngle + LEAF_RANGES[i].maxAngle : i \in Leaves}

InitMap ==
    /\ Setup
    /\ pc = "mapFloat"
    /\ iter = 0
    /\ ticks = 0
    /\ held = TRUE
    /\ burst = None
    /\ \E r \in MapRanges :
          /\ r.in_min # r.in_max
          /\ r.out_min # r.out_max
          /\ \E k \in MapNumerators(r.in_min, r.in_max) :
                mapCall = [stage |-> "called", x |-> [n |-> k, d |-> MapDen],
                           in_min |-> r.in_min, in_max |-> r.in_max,
                           out_min |-> r.out_min, out_max |-> r.out_max,
                           y |-> Rat(0), z |-> Rat(0)]

\* y = mapFloat(x, in_min, in_max, out_min, out_max)
MapForward ==
    /\ mapCall.stage = "called"
    /\ mapCall' = [mapCall EXCEPT
                     !.stage = "mapped",
                     !.y = mapFloat(mapCall.x, mapCall.in_min, mapCall.in_max,
                                    mapCall.out_min, mapCall.out_max)]
    /\ UNCHANGED <<pc, iter, currentPhases, movementState, userState,
                   userDetectTime, millis, serialIn, emitted, sampled,
                   approachDistance, interactionDistance, command, lastApplied,
                   prior, ticks, held, pwmWrites,
                   hostView,
                   currentState, moduleEmitted, burst>>

\* z = mapFloat(y, out_min, out_max, in_min, in_max)
MapInverse ==
    /\ mapCall.stage = "mapped"
    /\ mapCall' = [mapCall EXCEPT
                     !.stage = "inverted",
                     !.z = mapFloat(mapCall.y, mapCall.out_min, mapCall.out_max,
                                    mapCall.in_min, mapCall.in_max)]
    /\ UNCHANGED <<pc, iter, currentPhases, movementState, userState,
                   userDetectTime, millis, serialIn, emitted, sampled,
                   approachDistance, interactionDistance, command, lastApplied,
                   prior, ticks, held, pwmWrites,
                   hostView,
                   currentState, moduleEmitted, burst>>

NextMap == MapForward \/ MapInverse

SpecMap == InitMap /\ [][NextMap]_vars

\* ------------------------------------------- one animator step on its own
\* after setup(), or between two passes with both leaves at any phase of the
\* cycle and any movement state
InitLeaf ==
    /\ pc = "updateLeafMovement"
    /\ iter = 0
    /\ ticks = 0
    /\ held = TRUE
    /\ burst = None
    /\ mapCall = None
    /\ \/ Setup
       \/ \E ms \in MovementState, p \in 0 .. TWO_PI - 1 :
              StateWith(NO_USER, ms, [i \in Leaves |-> p], ULong(0),
                        ULong(SETUP_DELAY_MS), <<>>)

\* updateLeafMovement()
LeafStep ==
    /\ pc = "updateLeafMovement"
    /\ pwmWrites' = LeafWrites(currentPhases, movementState)
    /\ currentPhases' = updateLeafMovement(currentPhases, movementState)
    /\ pc' = "userDetection"
    /\ UNCHANGED <<iter, movementState, userState, userDetectTime, millis,
                   serialIn, emitted, sampled, approachDistance,
                   interactionDistance, command, lastApplied, prior, ticks,
                   held, mapCall,
                   hostView,
                   currentState, moduleEmitted, burst>>

NextLeaf == LeafStep

SpecLeaf == InitLeaf /\ [][NextLeaf]_vars

\* ------------------------------------- loop() as the millisecond clock wraps
\* milliseconds left until millis() wraps from 2^32 - 1 to 0 when the pass
\* that sampled last read the clock
WrapLeads == {70, 130}

\* between two passes, 49.7 days after power-up: the latest sampling tick was
\* in the pass before, lead milliseconds before the clock wraps; nobody is
\* near and the host is silent
InitWrap ==
    /\ pc = "updateLeafMovement"
    /\ iter = 0
    /\ ticks = 0
    /\ held = TRUE
    /\ burst = None
    /\ mapCall = None
    /\ \E lead \in WrapLeads :
          StateWith(NO_USER, IDLE,
                    [i \in Leaves |-> LEAF_BASELINES[i].phaseOffset],
                    [hi |-> HALF_WORD - 1, lo |-> HALF_WORD - lead],
                    [hi |-> HALF_WORD - 1, lo |-> HALF_WORD - lead], <<>>)

NextWrap ==
    \/ UpdateLeafMovement
    \/ UserDetectionSkip
    \/ UserDetectionSample
    \/ ReadSerialNothing

SpecWrap == InitWrap /\ [][NextWrap]_vars

\* ------------------------------------------- loop() draining a queue
\* lines the host can have queued before the first pass
MaxDrain == 2

\* after setup() or later, between two passes, in any user state and movement
\* state the firmware can be in
InitDrain ==
    /\ \E us \in UserState, ms \in MovementState :
          /\ us = NO_USER => ms # LISTEN
          /\ SetupWith(us, ms)
    /\ pc = "updateLeafMovement"
    /\ iter = 0
    /\ ticks = 0
    /\ held = TRUE
    /\ burst = [lines |-> <<>>, before |-> movementState]
    /\ mapCall = None

\* the host writes a line before the first pass starts, and nothing later
HostBurst ==
    /\ pc = "updateLeafMovement"
    /\ iter = 0
    /\ Len(serialIn) < MaxDrain
    /\ \E line \in HostLines :
          /\ serialIn' = Append(serialIn, line)
          /\ burst' = [burst EXCEPT !.lines = Append(@, line)]
    /\ UNCHANGED <<pc, iter, currentPhases, movementState, userState,
                   userDetectTime, millis, emitted, sampled, approachDistance,
                   interactionDistance, command, lastApplied, prior, ticks,
                   held, pwmWrites, mapCall, hostView, currentState,
                   moduleEmitted>>

\* userDetection() sampling readings that keep the user state
UserDetectionSteady == UserDetectionSample /\ userState' = userState

NextDrain ==
    \/ HostBurst
    \/ UpdateLeafMovement
    \/ UserDetectionSkip
    \/ UserDetectionSteady
    \/ ReadSerialNothing
    \/ ReadSerialLine

SpecDrain == InitDrain /\ [][NextDrain]_vars

\* ================================================================== claims
\* a step of userDetection() that sampled the sensors
SampleStep == pc = "userDetection" /\ sampled'

\* a step of readSerialCommands() that read a line
ReadLineStep ==
    pc = "readSerialCommands" /\ pc' = "updateLeafMovement" /\ serialIn # <<>>

\* the phase step of leaf i in movement state s
Increment(i, s) == LEAF_BASELINES[i].speed * ActiveMovement(s).speedFactor

\* C1: after setup() and after every updateLeafMovement(), in every movement
\* state, every leaf's stored phase p satisfies 0 <= p < 2*PI.
C1_PhaseInRange ==
    \A i \in Leaves : currentPhases[i] >= 0 /\ currentPhases[i] < TWO_PI

\* C1 witness: a leaf's phase has just been wrapped (it is below one phase
\* step although updateLeafMovement() has run).
C1_Witness ==
    /\ held
    /\ ticks > 0
    /\ \E i \in Leaves : currentPhases[i] < Increment(i, movementState)

\* C2: userState changes only in a sampling tick, only along
\* NO_USER -> USER_APPROACHING, USER_APPROACHING -> USER_INTERACTING,
\* USER_INTERACTING -> USER_APPROACHING, USER_APPROACHING -> NO_USER, and
\* each only when its threshold condition holds on that tick's sample.
C2_OnlyDocumentedTransitions ==
    [][userState' # userState =>
         /\ SampleStep
         /\ \/ /\ userState = NO_USER
               /\ userState' = USER_APPROACHING
               /\ approachDistance' <= APPROACH_THRESHOLD_CM
            \/ /\ userState = USER_APPROACHING
               /\ userState' = USER_INTERACTING
               /\ interactionDistance' <= INTERACTION_THRESHOLD_CM
            \/ /\ userState = USER_INTERACTING
               /\ userState' = USER_APPROACHING
               /\ interactionDistance' > INTERACTION_THRESHOLD_CM
            \/ /\ userState = USER_APPROACHING
               /\ userState' = NO_USER
               /\ approachDistance' > APPROACH_THRESHOLD_CM]_vars

\* C2 witness: the tick after NO_USER -> USER_APPROACHING -> USER_INTERACTING
\* in which the interaction reading is beyond its threshold and the state
\* went back one step, to USER_APPROACHING.
C2_Witness ==
    /\ sampled
    /\ prior.userState = USER_INTERACTING
    /\ userState = USER_APPROACHING
    /\ interactionDistance > INTERACTION_THRESHOLD_CM
    /\ emitted = <<EV_INTERACTION_END>>

\* C3: a sample whose approach distance equals the approach threshold (30 cm)
\* never takes USER_APPROACHING back to NO_USER, whatever the interaction
\* distance, and takes NO_USER to USER_APPROACHING.
C3_ThresholdInclusive ==
    [][(SampleStep /\ approachDistance' = APPROACH_THRESHOLD_CM) =>
         /\ userState = USER_APPROACHING => userState' # NO_USER
         /\ userState = NO_USER => userState' = USER_APPROACHING]_vars

\* C3 witness: USER_APPROACHING was sampled with the approach distance at
\* exactly the threshold and the interaction distance beyond its threshold,
\* and the state is still USER_APPROACHING.
C3_Witness ==
    /\ sampled
    /\ approachDistance = APPROACH_THRESHOLD_CM
    /\ interactionDistance > INTERACTION_THRESHOLD_CM
    /\ prior.userState = USER_APPROACHING
    /\ userState = USER_APPROACHING

\* C4: an echo that times out (pulseIn() returns 0) is treated as "far": in
\* NO_USER the tick neither advances to USER_APPROACHING nor prints an event,
\* and in USER_APPROACHING a timed-out interaction sensor does not advance to
\* USER_INTERACTING.
C4_TimeoutTreatedAsFar ==
    [][SampleStep =>
         /\ (userState = NO_USER
                /\ approachDistance' = readUltrasonicDistance(0))
              => (userState' = NO_USER /\ emitted' = <<>>)
         /\ (userState = USER_APPROACHING
                /\ interactionDistance' = readUltrasonicDistance(0))
              => userState' # USER_INTERACTING]_vars

\* C5: a sampling tick in NO_USER with approach distance <= threshold sets
\* userState to USER_APPROACHING, prints exactly event:user_approach_start and
\* sets movementState to LISTEN whatever it was; with approach distance >
\* threshold it changes nothing and prints nothing.
C5_NoUserTick ==
    [][(SampleStep /\ userState = NO_USER) =>
         IF approachDistance' <= APPROACH_THRESHOLD_CM
         THEN /\ userState' = USER_APPROACHING
              /\ emitted' = <<EV_APPROACH_START>>
              /\ movementState' = LISTEN
         ELSE /\ userState' = NO_USER
              /\ movementState' = movementState
              /\ currentPhases' = currentPhases
              /\ emitted' = <<>>]_vars

\* C5 witness: the host had set REACTING_NEGATIVE while nobody was there; the
\* tick that detected the approach set LISTEN and printed the event.
C5_Witness ==
    /\ sampled
    /\ prior.userState = NO_USER
    /\ prior.movementState = REACTING_NEGATIVE
    /\ approachDistance <= APPROACH_THRESHOLD_CM
    /\ userState = USER_APPROACHING
    /\ movementState = LISTEN
    /\ emitted = <<EV_APPROACH_START>>

\* C6: USER_APPROACHING -> USER_INTERACTING (interaction distance <=
\* interaction threshold) prints event:user_interaction_start and leaves
\* movementState as it was before the tick, for every prior movementState.
C6_InteractionStartKeepsMovement ==
    [][(/\ SampleStep
        /\ userState = USER_APPROACHING
        /\ \/ interactionDistance' <= INTERACTION_THRESHOLD_CM
           \/ userState' = USER_INTERACTING) =>
         /\ userState' = USER_INTERACTING
         /\ interactionDistance' <= INTERACTION_THRESHOLD_CM
         /\ emitted' = <<EV_INTERACTION_START>>
         /\ movementState' = movementState]_vars

\* C6 witness: the interaction started while the host-set REACTING_POSITIVE
\* was active, and REACTING_POSITIVE is still active.
C6_Witness ==
    /\ sampled
    /\ prior.userState = USER_APPROACHING
    /\ userState = USER_INTERACTING
    /\ prior.movementState = REACTING_POSITIVE
    /\ movementState = REACTING_POSITIVE
    /\ emitted = <<EV_INTERACTION_START>>

\* the movement state a recognized command line names
NamedState(line) ==
    CASE line = "set_state:REACTING_POSITIVE" -> REACTING_POSITIVE
      [] line = "set_state:REACTING_NEGATIVE" -> REACTING_NEGATIVE
      [] line = "set_state:REACTING_NEUTRAL" -> REACTING_NEUTRAL
      [] line = "set_state:IDLE" -> IDLE

\* C7: when readSerialCommands() reads one of the four recognized lines,
\* movementState is the named state when that pass of loop() ends, for every
\* prior movementState and every userState, and userState is unchanged.
C7_RecognizedCommandSetsState ==
    [][(ReadLineStep /\ Head(serialIn) \in RecognizedCommands) =>
         /\ movementState' = NamedState(Head(serialIn))
         /\ userState' = userState]_vars

\* C7 witness: set_state:REACTING_POSITIVE was read while the user was
\* interacting and LISTEN was active; the pass ended in REACTING_POSITIVE.
C7_Witness ==
    /\ pc = "updateLeafMovement"
    /\ command = CMD_POSITIVE
    /\ prior.movementState = LISTEN
    /\ userState = USER_INTERACTING
    /\ movementState = REACTING_POSITIVE

\* C8: a line that is not verbatim one of the four recognized commands is
\* consumed; movementState, userState and every phase are unchanged by that
\* step, nothing is printed, and loop() goes on.
C8_UnrecognizedLineDiscarded ==
    [][(ReadLineStep /\ Head(serialIn) \notin RecognizedCommands) =>
         /\ serialIn' = Tail(serialIn)
         /\ movementState' = movementState
         /\ userState' = userState
         /\ currentPhases' = currentPhases
         /\ emitted' = <<>>
         /\ pc' = "updateLeafMovement"]_vars

\* C8 witness: set_state:LISTEN was read while REACTING_POSITIVE was active,
\* and REACTING_POSITIVE is still active.
C8_Witness ==
    /\ pc = "updateLeafMovement"
    /\ command = "set_state:LISTEN"
    /\ prior.movementState = REACTING_POSITIVE
    /\ movementState = REACTING_POSITIVE
    /\ serialIn = <<>>

\* C9: a recognized command read again right after it was applied, with no
\* sensor transition in between, leaves movementState as the first
\* application left it, changes neither userState nor the phases and prints
\* nothing.
C9_RepeatedCommandIdempotent ==
    [][(/\ ReadLineStep
        /\ Head(serialIn) \in RecognizedCommands
        /\ Head(serialIn) = lastApplied) =>
         /\ movementState' = movementState
         /\ movementState' = NamedState(lastApplied)
         /\ userState' = userState
         /\ currentPhases' = currentPhases
         /\ emitted' = <<>>]_vars

\* C9 witness: set_state:REACTING_NEGATIVE was read for the second time in
\* a row.
C9_Witness ==
    /\ pc = "updateLeafMovement"
    /\ command = CMD_NEGATIVE
    /\ prior.lastApplied = CMD_NEGATIVE
    /\ lastApplied = CMD_NEGATIVE
    /\ movementState = REACTING_NEGATIVE

\* the speed factors C10 states, in halves
StatedSpeedFactor(s) ==
    CASE s = IDLE -> 2
      [] s = LISTEN -> 1
      [] s = REACTING_POSITIVE -> 4
      [] s = REACTING_NEGATIVE -> 6
      [] s = REACTING_NEUTRAL -> 3
      [] OTHER -> 2

\* C10: with movementState held at s, after N calls of updateLeafMovement()
\* leaf i's phase is (phaseOffset_i + speed_i * speedFactor(s) * N) mod 2*PI,
\* with speedFactor 1, 0.5, 2, 3, 1.5 for IDLE, LISTEN, REACTING_POSITIVE,
\* REACTING_NEGATIVE, REACTING_NEUTRAL and IDLE's for any other value; it
\* depends on leaf i's own configuration only.
C10_PhaseClosedForm ==
    /\ held =>
         \A i \in Leaves :
             currentPhases[i] =
                 (LEAF_BASELINES[i].phaseOffset
                    + LEAF_BASELINES[i].speed
                        * StatedSpeedFactor(movementState) * ticks) % TWO_PI
    /\ ActiveMovement(None).speedFactor = StatedSpeedFactor(None)

\* C10 witness: LISTEN was held long enough for both leaves to have gone
\* round once (leaf 0 is just past its first wrap).
C10_Witness ==
    /\ held
    /\ movementState = LISTEN
    /\ ticks > 0
    /\ currentPhases[0] < Increment(0, LISTEN)

\* C11: no line from the host sets movementState to LISTEN: every step that
\* changes movementState to LISTEN is a sampling tick that takes userState
\* from NO_USER to USER_APPROACHING, and a step of readSerialCommands never
\* does.
C11_ListenOnlyFromSensor ==
    [][(movementState' = LISTEN /\ movementState # LISTEN) =>
         /\ SampleStep
         /\ ~ReadLineStep
         /\ userState = NO_USER
         /\ userState' = USER_APPROACHING]_vars

\* C11 witness: the host's line set_state:LISTEN was read during an IDLE
\* movement with nobody near, and the movement is still IDLE.
C11_Witness ==
    /\ pc = "updateLeafMovement"
    /\ command = "set_state:LISTEN"
    /\ userState = NO_USER
    /\ prior.movementState = IDLE
    /\ movementState = IDLE

\* C12 as stated: every change of movementState made by a sampling tick goes
\* from IDLE to LISTEN or from LISTEN to IDLE, so a tick never takes
\* movementState out of a REACTING state.
C12_SensorOnlyIdleListenEdge ==
    [][(SampleStep /\ movementState' # movementState) =>
         \/ movementState = IDLE /\ movementState' = LISTEN
         \/ movementState = LISTEN /\ movementState' = IDLE]_vars

\* C12 amended: every change of movementState made by a sampling tick sets
\* LISTEN on the transition NO_USER -> USER_APPROACHING or IDLE on the
\* transition USER_APPROACHING -> NO_USER, whatever movementState was before
\* (REACTING states included); a tick never sets a REACTING state.
C12_SensorSetsOnlyListenOrIdle ==
    [][(SampleStep /\ movementState' # movementState) =>
         \/ /\ userState = NO_USER
            /\ userState' = USER_APPROACHING
            /\ movementState' = LISTEN
         \/ /\ userState = USER_APPROACHING
            /\ userState' = NO_USER
            /\ movementState' = IDLE]_vars

\* C12 witness: a sampling tick ended the approach while the host's
\* REACTING_POSITIVE was active and left IDLE behind.
C12_Witness ==
    /\ sampled
    /\ pc = "readSerialCommands"
    /\ prior.userState = USER_APPROACHING
    /\ prior.movementState = REACTING_POSITIVE
    /\ userState = NO_USER
    /\ movementState = IDLE

\* the line the spec names for a change of userState
TransitionLine(from, to) ==
    IF from = NO_USER /\ to = USER_APPROACHING THEN <<EV_APPROACH_START>>
    ELSE IF from = USER_APPROACHING /\ to = NO_USER THEN <<EV_APPROACH_END>>
    ELSE IF from = USER_APPROACHING /\ to = USER_INTERACTING
    THEN <<EV_INTERACTION_START>>
    ELSE IF from = USER_INTERACTING /\ to = USER_APPROACHING
    THEN <<EV_INTERACTION_END>>
    ELSE <<>>

\* C13: a sampling tick prints a line exactly when it changes userState, at
\* most one line, and the line is the one named for the transition; every
\* other step of loop() prints nothing.
C13_EventIffTransition ==
    [][/\ SampleStep =>
            /\ (emitted' # <<>>) <=> (userState' # userState)
            /\ Len(emitted') <= 1
            /\ emitted' = TransitionLine(userState, userState')
       /\ (~SampleStep /\ pc' # pc) => emitted' = <<>>]_vars

\* C13 witness: a sampling tick took userState from USER_INTERACTING back to
\* USER_APPROACHING and printed the one line of the interaction end.
C13_Witness ==
    /\ sampled
    /\ pc = "readSerialCommands"
    /\ prior.userState = USER_INTERACTING
    /\ userState = USER_APPROACHING
    /\ emitted = <<EV_INTERACTION_END>>

\* readings on both sides of the two thresholds that echoes produce: 1749 and
\* 1750 microseconds around 30 cm, 583 and 584 microseconds around 10 cm, and
\* 1000 microseconds for an interaction sensor with nothing near
JustWithinApproach == readUltrasonicDistance(1749)
JustBeyondApproach == readUltrasonicDistance(1750)
JustWithinInteraction == readUltrasonicDistance(583)
JustBeyondInteraction == readUltrasonicDistance(584)
FarInteraction == readUltrasonicDistance(1000)

\* C14: with the approach reading going from just within the threshold to
\* just beyond it between two consecutive sampling ticks (the interaction
\* reading staying far), userState does not go NO_USER -> USER_APPROACHING
\* on the first and back to NO_USER on the second; likewise, with the
\* interaction reading going from just within to just beyond its threshold
\* (the approach reading staying within), userState does not go
\* USER_APPROACHING -> USER_INTERACTING on the first and back on the second.
C14_NoAlternationAtThreshold ==
    [][/\ ( /\ sampled /\ sampled'
            /\ prior.userState = NO_USER
            /\ userState = USER_APPROACHING
            /\ approachDistance = JustWithinApproach
            /\ approachDistance' = JustBeyondApproach
            /\ interactionDistance = FarInteraction
            /\ interactionDistance' = FarInteraction )
          => userState' # NO_USER
       /\ ( /\ sampled /\ sampled'
            /\ prior.userState = USER_APPROACHING
            /\ userState = USER_INTERACTING
            /\ interactionDistance = JustWithinInteraction
            /\ interactionDistance' = JustBeyondInteraction
            /\ approachDistance = JustWithinApproach
            /\ approachDistance' = JustWithinApproach )
          => userState' # USER_APPROACHING]_vars

\* equality of two fractions
RatEq(p, q) == p.n * q.d = q.n * p.d

\* C15: for in_min # in_max, out_min # out_max and x between in_min and
\* in_max, mapping x to the output range and the result back to the input
\* range gives x again (in exact arithmetic).
C15_MapFloatRoundTrip ==
    mapCall.stage = "inverted" => RatEq(mapCall.z, mapCall.x)

\* C15 witness: the sine value 1/2 was mapped to the angle 112.5 of the
\* range 45 .. 135 and back.
C15_Witness ==
    /\ mapCall.stage = "inverted"
    /\ mapCall.in_min = -1 /\ mapCall.in_max = 1
    /\ mapCall.out_min = 45 /\ mapCall.out_max = 135
    /\ mapCall.x = [n |-> 1, d |-> 2]
    /\ RatEq(mapCall.y, [n |-> 225, d |-> 2])

\* C16: in every reachable state with userState = NO_USER the movement state
\* is IDLE.
C16_NoUserImpliesIdle == userState = NO_USER => movementState = IDLE

\* C17: a sampling tick in USER_APPROACHING goes to USER_INTERACTING when the
\* interaction reading is within its threshold, even with the approach
\* reading beyond its own; otherwise, exactly when the approach reading is
\* beyond its threshold, it goes to NO_USER, prints event:user_approach_end
\* and sets IDLE whatever movementState was; otherwise it changes nothing.
C17_ApproachingPriority ==
    [][(SampleStep /\ userState = USER_APPROACHING) =>
         IF interactionDistance' <= INTERACTION_THRESHOLD_CM
         THEN userState' = USER_INTERACTING
         ELSE IF approachDistance' > APPROACH_THRESHOLD_CM
         THEN /\ userState' = NO_USER
              /\ emitted' = <<EV_APPROACH_END>>
              /\ movementState' = IDLE
         ELSE /\ userState' = USER_APPROACHING
              /\ movementState' = movementState
              /\ emitted' = <<>>]_vars

\* C17 witness: a tick in USER_APPROACHING read the interaction sensor within
\* its threshold and the approach sensor beyond its own, and advanced to
\* USER_INTERACTING.
C17_Witness ==
    /\ sampled
    /\ pc = "readSerialCommands"
    /\ prior.userState = USER_APPROACHING
    /\ interactionDistance <= INTERACTION_THRESHOLD_CM
    /\ approachDistance > APPROACH_THRESHOLD_CM
    /\ userState = USER_INTERACTING

\* C18: a sampling tick in USER_INTERACTING goes back to USER_APPROACHING and
\* prints event:user_interaction_end exactly when the interaction reading is
\* beyond its threshold, whatever the approach reading is, and leaves
\* movementState as it was.
C18_InteractingRegress ==
    [][(SampleStep /\ userState = USER_INTERACTING) =>
         /\ movementState' = movementState
         /\ IF interactionDistance' > INTERACTION_THRESHOLD_CM
            THEN /\ userState' = USER_APPROACHING
                 /\ emitted' = <<EV_INTERACTION_END>>
            ELSE /\ userState' = USER_INTERACTING
                 /\ emitted' = <<>>]_vars

\* C18 witness: a tick in USER_INTERACTING with both readings beyond their
\* thresholds went back to USER_APPROACHING, not further, and left the
\* host's REACTING_NEUTRAL active.
C18_Witness ==
    /\ sampled
    /\ pc = "readSerialCommands"
    /\ prior.userState = USER_INTERACTING
    /\ prior.movementState = REACTING_NEUTRAL
    /\ interactionDistance > INTERACTION_THRESHOLD_CM
    /\ approachDistance > APPROACH_THRESHOLD_CM
    /\ userState = USER_APPROACHING
    /\ movementState = REACTING_NEUTRAL

\* milliseconds from the latest sampling tick to the latest reading of the
\* clock, as a plain integer (the clock does not wrap in these runs)
ElapsedMs ==
    (millis.hi - userDetectTime.hi) * HALF_WORD + millis.lo - userDetectTime.lo

\* C19: a sampling tick happens only when at least SAMPLING_INTERVAL_MS have
\* passed since the tick before it, and restarts the interval; in a pass
\* where less has passed, the sensor step reads no sensor, leaves userState
\* and movementState as they were and prints nothing.
C19_RateLimited ==
    [][/\ SampleStep =>
            /\ ElapsedMs >= SAMPLING_INTERVAL_MS
            /\ userDetectTime' = millis
       /\ (pc = "userDetection" /\ pc' # pc
              /\ ElapsedMs < SAMPLING_INTERVAL_MS) =>
            /\ ~sampled'
            /\ approachDistance' = None
            /\ interactionDistance' = None
            /\ userState' = userState
            /\ movementState' = movementState
            /\ userDetectTime' = userDetectTime
            /\ emitted' = <<>>]_vars

\* C19 witness: the third pass sampled exactly 100 ms after the tick of the
\* first pass, the second pass having come too early to sample.
C19_Witness ==
    /\ pc = "readSerialCommands"
    /\ iter = 3
    /\ sampled
    /\ millis = ULong(SETUP_DELAY_MS + 2 * SAMPLING_INTERVAL_MS)
    /\ userDetectTime = millis
    /\ userState = USER_INTERACTING

\* C20: every pass of loop() starts with the animator, which advances the
\* phase of every leaf by its increment (wrapped at most once) and writes
\* one position per leaf, whether or not the sampling interval has passed
\* and whether or not a line from the host is pending; no other step of the
\* pass touches a phase or writes a position.
C20_AnimatorEveryPass ==
    [][/\ (pc = "updateLeafMovement" /\ pc' # pc) =>
            /\ pc' = "userDetection"
            /\ \A i \in Leaves :
                   \/ currentPhases'[i] =
                          currentPhases[i] + Increment(i, movementState)
                   \/ currentPhases'[i] =
                          currentPhases[i] + Increment(i, movementState) - TWO_PI
            /\ Len(pwmWrites') = NUM_LEAVES
            /\ \A i \in Leaves :
                   Cardinality({k \in 1 .. Len(pwmWrites') :
                                  pwmWrites'[k].channel = LEAF_PINS[i].servoPin}) = 1
       /\ (pc # "updateLeafMovement" /\ pc' # pc) =>
            /\ currentPhases' = currentPhases
            /\ pwmWrites' = <<>>
            /\ (pc = "readSerialCommands" => pc' = "updateLeafMovement")]_vars

\* C20 witness: the animator has just run its second pass with a line from
\* the host pending and the sampling interval not yet over.
C20_Witness ==
    /\ pc = "userDetection"
    /\ iter = 2
    /\ serialIn # <<>>
    /\ NotTimeToSample(millis, userDetectTime)
    /\ Len(pwmWrites) = NUM_LEAVES
    /\ currentPhases[0] = 2 * Increment(0, IDLE)

\* C21: a pass of loop() calls updateLeafMovement, then userDetection, then
\* readSerialCommands; so when the sampling tick of a pass set movementState
\* (LISTEN on the approach start, IDLE on the approach end) and the same pass
\* reads a recognized command, the pass ends with the command's state.
C21_CommandAfterSensor ==
    [][/\ pc' # pc =>
            \/ pc = "updateLeafMovement" /\ pc' = "userDetection"
            \/ pc = "userDetection" /\ pc' = "readSerialCommands"
            \/ pc = "readSerialCommands" /\ pc' = "updateLeafMovement"
       /\ ( /\ ReadLineStep
            /\ sampled
            /\ emitted \in {<<EV_APPROACH_START>>, <<EV_APPROACH_END>>}
            /\ Head(serialIn) \in RecognizedCommands )
          => /\ movementState' = NamedState(Head(serialIn))
             /\ userState' = userState]_vars

\* C21 witness: the first pass sampled, saw the approach start and set
\* LISTEN, then read set_state:REACTING_POSITIVE; the pass ended in
\* REACTING_POSITIVE.
C21_Witness ==
    /\ pc = "updateLeafMovement"
    /\ iter = 1
    /\ sampled
    /\ userState = USER_APPROACHING
    /\ prior.movementState = LISTEN
    /\ command = CMD_POSITIVE
    /\ movementState = REACTING_POSITIVE

\* C22: the phases are written by updateLeafMovement only: userDetection and
\* readSerialCommands leave every currentPhases[i] as it was, and so does
\* every step that changes movementState.
C22_PhasesOnlyByAnimator ==
    [][/\ (pc # "updateLeafMovement") => currentPhases' = currentPhases
       /\ (movementState' # movementState) => currentPhases' = currentPhases
       /\ (SampleStep \/ ReadLineStep) => currentPhases' = currentPhases]_vars

\* C22 witness: a line from the host changed the movement from IDLE to
\* REACTING_NEGATIVE after two animator steps, and both leaves kept the
\* phases those two steps left.
C22_Witness ==
    /\ pc = "updateLeafMovement"
    /\ iter = 2
    /\ command = CMD_NEGATIVE
    /\ prior.movementState = IDLE
    /\ movementState = REACTING_NEGATIVE
    /\ \A i \in Leaves :
           currentPhases[i] =
               LEAF_BASELINES[i].phaseOffset + 2 * Increment(i, IDLE)

\* C23: movementState changes only because a tick NO_USER ->
\* USER_APPROACHING set LISTEN, a tick USER_APPROACHING -> NO_USER set IDLE,
\* or a recognized command set the state it names (IDLE or a REACTING
\* state); the animator and every other sampling outcome leave it unchanged.
C23_SingleMutationPoint ==
    [][(movementState' # movementState) =>
         \/ /\ SampleStep
            /\ userState = NO_USER /\ userState' = USER_APPROACHING
            /\ movementState' = LISTEN
         \/ /\ SampleStep
            /\ userState = USER_APPROACHING /\ userState' = NO_USER
            /\ movementState' = IDLE
         \/ /\ ReadLineStep
            /\ Head(serialIn) \in RecognizedCommands
            /\ movementState' = NamedState(Head(serialIn))
            /\ movementState' \in MovementState \ {LISTEN}]_vars

\* C23 witness: set_state:IDLE was read during an interaction and replaced
\* REACTING_NEGATIVE by IDLE.
C23_Witness ==
    /\ pc = "updateLeafMovement"
    /\ userState = USER_INTERACTING
    /\ command = CMD_IDLE
    /\ prior.movementState = REACTING_NEGATIVE
    /\ movementState = IDLE

\* order of two fractions with positive denominators
RatLe(p, q) == p.n * q.d <= q.n * p.d

\* C24: the servo writes of an animator step are the same whatever the
\* movement state is: at the same phases, every other movement state gives
\* the same channel, angle and pulse width for every leaf (amplitude and
\* centerAngle of the movement set have no effect).
C24_PulseIndependentOfMovement ==
    [][(pc = "updateLeafMovement" /\ pc' # pc) =>
         \A s \in MovementState :
             pwmWrites' = LeafWrites(currentPhases, s)]_vars

\* C24 witness: REACTING_NEGATIVE (centerAngle 135, amplitude 5) was active
\* while leaf 0 passed the trough of the sine, and the angle written is the
\* 45 degrees of the leaf's own range.
C24_Witness ==
    /\ pc = "userDetection"
    /\ movementState = REACTING_NEGATIVE
    /\ Len(pwmWrites) = NUM_LEAVES
    /\ RatLe(pwmWrites[1].angle, Rat(45))
    /\ RatLe(Rat(45), pwmWrites[1].angle)

\* the pulse width moveLeaf's conversion gives for a whole angle
PulseOfAngle(a) ==
    PULSEWIDTH_MIN + (a * (PULSEWIDTH_MAX - PULSEWIDTH_MIN)) \div SERVO_MAX_ANGLE

\* C25: every servo write, in setup and in every animator step, at every
\* phase and in every movement state, goes to the leaf's channel with an
\* angle inside the leaf's range [minAngle, maxAngle] and a pulse width
\* between the pulse widths of minAngle and maxAngle, hence inside
\* [PULSEWIDTH_MIN, PULSEWIDTH_MAX].
C25_WritesInsideLeafRange ==
    \A k \in 1 .. Len(pwmWrites) :
        /\ pwmWrites[k].channel = LEAF_PINS[k - 1].servoPin
        /\ RatLe(Rat(LEAF_RANGES[k - 1].minAngle), pwmWrites[k].angle)
        /\ RatLe(pwmWrites[k].angle, Rat(LEAF_RANGES[k - 1].maxAngle))
        /\ PulseOfAngle(LEAF_RANGES[k - 1].minAngle) <= pwmWrites[k].pulseWidth
        /\ pwmWrites[k].pulseWidth <= PulseOfAngle(LEAF_RANGES[k - 1].maxAngle)
        /\ PULSEWIDTH_MIN <= pwmWrites[k].pulseWidth
        /\ pwmWrites[k].pulseWidth <= PULSEWIDTH_MAX

\* C25 witness: an animator step wrote the top of the range, 135 degrees and
\* the pulse width 1500, to leaf 1.
C25_Witness ==
    /\ pc = "userDetection"
    /\ Len(pwmWrites) = NUM_LEAVES
    /\ pwmWrites[2].channel = LEAF_PINS[1].servoPin
    /\ RatLe(Rat(LEAF_RANGES[1].maxAngle), pwmWrites[2].angle)
    /\ pwmWrites[2].pulseWidth = PulseOfAngle(LEAF_RANGES[1].maxAngle)

\* C26: for in_min # in_max, mapFloat gives out_min at in_min and out_max at
\* in_max; and for in_min <= x <= y <= in_max and out_min <= out_max the
\* result for x is not above the result for y.
C26_MapFloatExactAndMonotonic ==
    (mapCall.stage # "called") =>
        /\ RatEq(mapCall.x, Rat(mapCall.in_min)) =>
               RatEq(mapCall.y, Rat(mapCall.out_min))
        /\ RatEq(mapCall.x, Rat(mapCall.in_max)) =>
               RatEq(mapCall.y, Rat(mapCall.out_max))
        /\ (mapCall.in_min < mapCall.in_max /\ mapCall.out_min <= mapCall.out_max) =>
               \A k \in MapNumerators(mapCall.in_min, mapCall.in_max) :
                   RatLe(mapCall.x, [n |-> k, d |-> MapDen]) =>
                       RatLe(mapCall.y,
                             mapFloat([n |-> k, d |-> MapDen],
                                      mapCall.in_min, mapCall.in_max,
                                      mapCall.out_min, mapCall.out_max))

\* C26 witness: the angle SERVO_MAX_ANGLE was mapped to PULSEWIDTH_MAX.
C26_Witness ==
    /\ mapCall.stage = "mapped"
    /\ mapCall.in_min = 0 /\ mapCall.in_max = SERVO_MAX_ANGLE
    /\ RatEq(mapCall.x, Rat(SERVO_MAX_ANGLE))
    /\ RatEq(mapCall.y, Rat(PULSEWIDTH_MAX))

\* C27: a host that starts at NO_USER and follows the printed lines (approach
\* start and end around interaction start and end, each start answered by
\* its end before the next start) is never put out of step by a line and
\* always holds the firmware's userState: the first line is
\* event:user_approach_start, starts and ends alternate, and the interaction
\* lines come only between an approach start and the next approach end.
C27_EventStreamWellNested == hostView # None => hostView = userState

\* C27 witness: the host followed a visit from NO_USER through to the line
\* event:user_approach_end and is back at NO_USER.
C27_Witness ==
    /\ sampled
    /\ hostView = NO_USER
    /\ prior.userState = USER_APPROACHING
    /\ userState = NO_USER
    /\ emitted = <<EV_APPROACH_END>>

\* C28: in every reachable state of loop(), userState = NO_USER implies
\* movementState # LISTEN.
C28_NoUserNeverListens == userState = NO_USER => movementState # LISTEN

\* C28 witness: a sampling tick ended an approach during which LISTEN was
\* active, and left NO_USER with IDLE.
C28_Witness ==
    /\ sampled
    /\ pc = "readSerialCommands"
    /\ prior.userState = USER_APPROACHING
    /\ prior.movementState = LISTEN
    /\ userState = NO_USER
    /\ movementState = IDLE

\* C29: while a visitor is present (userState # NO_USER) and movementState
\* is not LISTEN, no step makes it LISTEN; a step that makes it LISTEN starts
\* in NO_USER and ends in USER_APPROACHING.
C29_ListenNotRestored ==
    [][/\ (userState # NO_USER /\ movementState # LISTEN) =>
            movementState' # LISTEN
       /\ (movementState # LISTEN /\ movementState' = LISTEN) =>
            (userState = NO_USER /\ userState' = USER_APPROACHING)]_vars

\* C29 witness: set_state:IDLE replaced LISTEN during an approach, and a
\* later sampling tick that found the visitor still approaching left IDLE.
C29_Witness ==
    /\ sampled
    /\ pc = "readSerialCommands"
    /\ prior.userState = USER_APPROACHING
    /\ userState = USER_APPROACHING
    /\ lastApplied = CMD_IDLE
    /\ prior.movementState = IDLE
    /\ movementState = IDLE

\* milliseconds from the instant the clock wraps to the reading t of the
\* clock, negative for readings taken before the wrap (readings of SpecWrap
\* lie within a second of the wrap)
SinceWrap(t) ==
    IF t.hi = HALF_WORD - 1 THEN t.lo - HALF_WORD ELSE t.hi * HALF_WORD + t.lo

\* C30: with the clock wrapping from 2^32 - 1 to 0 between two sampling
\* ticks, the sensor step samples exactly in the passes in which at least
\* SAMPLING_INTERVAL_MS of real time have passed since the latest tick
\* (neither earlier nor later), and restarts the interval at the wrapped
\* reading.
C30_SamplingAcrossWrap ==
    [][(pc = "userDetection" /\ pc' # pc) =>
         /\ sampled' <=>
               (SinceWrap(millis) - SinceWrap(userDetectTime)
                   >= SAMPLING_INTERVAL_MS)
         /\ sampled' => userDetectTime' = millis]_vars

\* C30 witness: the latest tick was 70 ms before the wrap, and the second
\* pass after it sampled 30 ms after the wrap, 100 ms later.
C30_Witness ==
    /\ pc = "readSerialCommands"
    /\ iter = 2
    /\ sampled
    /\ millis = [hi |-> 0, lo |-> 30]
    /\ userDetectTime = millis

\* both readings of a sampling tick are beyond their thresholds
Departed(approach, interaction) ==
    /\ approach > APPROACH_THRESHOLD_CM
    /\ interaction > INTERACTION_THRESHOLD_CM

\* C31: once every sampling tick reads both distances beyond their
\* thresholds, userState is NO_USER after at most two ticks and stays there:
\* such a tick takes USER_INTERACTING to USER_APPROACHING and leaves
\* movementState as it was, takes USER_APPROACHING to NO_USER and sets IDLE,
\* and leaves NO_USER alone; so the second of two such ticks in a row always
\* ends in NO_USER.
C31_DepartureWithinTwoTicks ==
    [][(sampled' /\ Departed(approachDistance', interactionDistance')) =>
         /\ userState = USER_INTERACTING =>
               (userState' = USER_APPROACHING /\ movementState' = movementState)
         /\ userState = USER_APPROACHING =>
               (userState' = NO_USER /\ movementState' = IDLE)
         /\ userState = NO_USER =>
               (userState' = NO_USER /\ movementState' = movementState)
         /\ (sampled /\ Departed(approachDistance, interactionDistance)) =>
               userState' = NO_USER]_vars

\* C31 witness: the second tick in a row with both readings beyond their
\* thresholds ended the approach that the first had fallen back to, and set
\* IDLE.
C31_Witness ==
    /\ sampled
    /\ Departed(approachDistance, interactionDistance)
    /\ prior.userState = USER_APPROACHING
    /\ prior.movementState = REACTING_NEUTRAL
    /\ emitted = <<EV_APPROACH_END>>
    /\ userState = NO_USER
    /\ movementState = IDLE

\* C34: the animator step of a pass advances every phase by the leaf's speed
\* times the speed factor of the movement state the pass before ended with,
\* and does not change that state; the steps that change the movement state
\* later in the pass move no phase, so the change shows in every leaf's
\* increment from the next pass on.
C34_IncrementUsesStateOfPassBefore ==
    [][/\ (pc = "updateLeafMovement" /\ pc' # pc) =>
            /\ movementState' = movementState
            /\ \A i \in Leaves :
                   \E wrap \in {0, TWO_PI} :
                       currentPhases'[i] + wrap =
                           currentPhases[i]
                           + LEAF_BASELINES[i].speed
                             * StatedSpeedFactor(movementState)
       /\ (SampleStep \/ ReadLineStep) => currentPhases' = currentPhases]_vars

\* C34 witness: set_state:REACTING_NEGATIVE was read in the first pass; the
\* first animator step had advanced leaf 0 at the speed factor of IDLE, and
\* the second has now advanced it at the speed factor of REACTING_NEGATIVE.
C34_Witness ==
    /\ pc = "userDetection"
    /\ iter = 2
    /\ movementState = REACTING_NEGATIVE
    /\ currentPhases[0] =
           LEAF_BASELINES[0].phaseOffset + Increment(0, IDLE)
           + Increment(0, REACTING_NEGATIVE)

\* the movement state after the lines were applied in order, starting from
\* before: that of the last line that is one of the four commands
RECURSIVE LastRecognized(_, _)
LastRecognized(lines, before) ==
    IF lines = <<>> THEN before
    ELSE IF lines[Len(lines)] \in {"set_state:REACTING_POSITIVE",
                                   "set_state:REACTING_NEGATIVE",
                                   "set_state:REACTING_NEUTRAL",
                                   "set_state:IDLE"}
    THEN NamedState(lines[Len(lines)])
    ELSE LastRecognized(SubSeq(lines, 1, Len(lines) - 1), before)

\* calls of readSerialCommands() completed
PollsDone == IF pc = "updateLeafMovement" THEN iter ELSE iter - 1

\* C32: with k lines queued before the first pass, no later input and no
\* sensor transition, each pass takes exactly one line off the front of the
\* queue while there is one: after n passes the queue holds the lines after
\* the first min(n, k) in arrival order, so it is empty after exactly k
\* passes, and the movement state is that of the last recognized command
\* among the lines taken, or the state before if none of them was recognized.
C32_OneLinePerPassInOrder ==
    LET k == Len(burst.lines)
        done == IF PollsDone < k THEN PollsDone ELSE k
    IN  /\ serialIn = SubSeq(burst.lines, done + 1, k)
        /\ movementState =
               LastRecognized(SubSeq(burst.lines, 1, done), burst.before)

\* C32 witness: two lines were queued, a command and then an unknown line;
\* two passes have emptied the queue and the command's state stands.
C32_Witness ==
    /\ pc = "updateLeafMovement"
    /\ iter = 2
    /\ burst = [lines |-> <<"set_state:REACTING_NEGATIVE", "set_state:BOGUS">>,
                before |-> IDLE]
    /\ serialIn = <<>>
    /\ movementState = REACTING_NEGATIVE

\* C33: run side by side on the same sampling ticks and readings, the
\* standalone sensor module holds the same user state as the integrated
\* firmware after every step and has printed the same lines in the same
\* order, whatever lines the host sends to the integrated firmware.
C33_SensorModuleInStep ==
    /\ currentState = userState
    /\ moduleEmitted = emitted

\* C33 witness: a host command had set REACTING_POSITIVE during the
\* interaction; both firmwares printed the end of the interaction on the same
\* tick and hold USER_APPROACHING.
C33_Witness ==
    /\ sampled
    /\ prior.userState = USER_INTERACTING
    /\ prior.movementState = REACTING_POSITIVE
    /\ currentState = USER_APPROACHING
    /\ moduleEmitted = <<"event:user_interaction_end">>

====
